---- MODULE Spec2Model ----
(***************************************************************************)
(* Event management backend: the events and notifications tables, the      *)
(* generic repository operations on them, EventService and the OpenAPI     *)
(* handlers that call it.                                                  *)
(*                                                                         *)
(* Encoding of values:                                                     *)
(*   - an event id / notification id is a natural number handed out by a   *)
(*     counter (gen_random_uuid(): always fresh, never reused);            *)
(*   - a date is a natural number; a null end_date is NullDate;            *)
(*   - the clock read by new Date() and by the column default now() is a   *)
(*     logical clock: it advances with every row written to events, so     *)
(*     each write carries its own timestamp;                               *)
(*   - a varchar/text value that is a name is a sequence of characters, so *)
(*     that the empty string and the " (Copy)" suffix are what they are    *)
(*     in the program; nullable text columns hold NullText when null;      *)
(*   - fault is the environment: TRUE while the database refuses inserts   *)
(*     into notifications (connection lost, statement timeout);            *)
(*   - store is the state of the client's events store (useEventsStore);   *)
(*   - an object with optional keys (NewEvent, Partial<Event>) is a        *)
(*     function whose DOMAIN is the set of keys that are present.          *)
(***************************************************************************)
EXTENDS Integers, Sequences, FiniteSets, TLC

VARIABLES events, notifications, nextId, nextNid, now, last, calls, fault,
          store

vars == <<events, notifications, nextId, nextNid, now, last, calls, fault,
          store>>

----------------------------------------------------------------------------
(* Bounds of the model *)

\* rows written to the events table (inserted or updated) in one behaviour
MaxWrites == 2

\* rows inserted into the notifications table in one behaviour of SpecNotif
MaxNotifications == 3

\* events in the store that SpecList lists, and the largest page and page
\* size it asks for
MaxListed == 3

MaxDate == 2

----------------------------------------------------------------------------
(* Values *)

NullDate == 0

NullText == "<null>"

EmptyString == <<>>

CopySuffix == <<" ", "(", "C", "o", "p", "y", ")">>

Statuses == {"draft", "published", "archived"}

Dates == 1..MaxDate

EventIds == 1..MaxWrites

NotificationIds == 1..MaxNotifications

NoKeys == [k \in {} |-> 0]

\* the objects {} and {key: v} for v in V
Opt(key, V) == {NoKeys} \cup {(key :> v) : v \in V}

\* obj.key, undefined read as dflt
Get(obj, key, dflt) == IF key \in DOMAIN obj THEN obj[key] ELSE dflt

CreateNames == {<<"A">>}

UpdateNames == {EmptyString, <<"A">>}

Details == [description |-> "d", location |-> "L", tags |-> <<"t">>]

\* schema.NewEvent: name and startDate required, the rest optional
CreateInputs ==
  { req @@ st @@ en @@ Details :
      req \in [name : CreateNames, startDate : Dates],
      st \in Opt("status", {"published"}),
      en \in Opt("endDate", Dates) }

\* Partial<schema.Event>
ChangeSets ==
  { ch \in { n @@ s @@ sd @@ ed @@ l :
               n \in Opt("name", UpdateNames),
               s \in Opt("status", Statuses),
               sd \in Opt("startDate", Dates),
               ed \in Opt("endDate", Dates \cup {NullDate}),
               l \in Opt("location", {NullText}) } :
      \/ Cardinality(DOMAIN ch) <= 1
      \/ DOMAIN ch = {"startDate", "endDate"} }

\* request body of cancelEvent: occurrence and reason, both optional
CancelBodies ==
  { o @@ r : o \in Opt("occurrence", {1}),
             r \in Opt("reason", {EmptyString, <<"r">>}) }

\* the action tags of eventQuickAction, and one that is none of them
QuickActions == {"view", "edit", "duplicate", "cancel"}

OtherAction == "delete"

\* request body of eventQuickAction: an action tag and an optional payload
QuickBodies ==
  { [action |-> "edit"] @@ p : p \in Opt("payload", ChangeSets) }
    \cup { [action |-> a] @@ p :
              a \in (QuickActions \ {"edit"}) \cup {OtherAction},
              p \in Opt("payload", {NoKeys}) }

\* the bodies the quick-action requests of a behaviour carry
QuickRequests ==
  { body \in QuickBodies :
      "payload" \in DOMAIN body =>
        /\ body.action = "edit"
        /\ Cardinality(DOMAIN body.payload) <= 1 }

\* the type argument of createEventNotification: the valid ones and another
\* request bodies of duplicateEvent: the optional overrides, and a field the
\* handler's type does not name
DuplicateBodies ==
  { nm @@ tg @@ st :
      nm \in Opt("name", {EmptyString, <<"B">>}),
      tg \in Opt("tags", {<<"x">>}),
      st \in Opt("status", {"published"}) }

TypeInputs == {"info", "warning", "error", "success", "urgent"}

\* Partial<schema.Notification>
NotificationChangeSets == {[isRead |-> 0], [title |-> "Edited"]}

\* the events of a store that is listed: names, tags and statuses differ
ListRows ==
  { [name |-> r[1], tags |-> r[2], status |-> r[3],
     description |-> "d", startDate |-> 1, endDate |-> NullDate,
     location |-> "L", updatedAt |-> 0] :
      r \in { <<<<"A", "b">>, <<>>, "draft">>,
              <<<<"b">>, <<<<"A">>>>, "published">>,
              <<<<"b">>, <<>>, "draft">>,
              <<<<"A", "b">>, <<<<"A">>>>, "published">> } }

\* query string of listEvents; every key is optional
ListQueries ==
  { p @@ ps @@ q @@ st :
      p \in Opt("page", 1..MaxListed),
      ps \in Opt("pageSize", 1..MaxListed),
      q \in Opt("q", {EmptyString, <<"a">>, <<"_">>}),
      st \in Opt("status", {"draft", "published"}) }

----------------------------------------------------------------------------
(* The database: both tables and the two id generators *)

DB == [events |-> events, notifications |-> notifications,
       nextId |-> nextId, nextNid |-> nextNid, now |-> now, fault |-> fault]

Outcome(db, result, newId, deleted) ==
  [db |-> db, result |-> result, newId |-> newId, deleted |-> deleted]

Ok(db) == Outcome(db, "ok", 0, FALSE)

Fail(db, kind) == Outcome(db, kind, 0, FALSE)

\* BaseRepository.findById: the row, or undefined
Exists(db, id) == id \in DOMAIN db.events

\* BaseRepository.create on events: column defaults fill the absent keys
eventsCreate(db, data, t) ==
  LET row == [name |-> data.name,
              description |-> Get(data, "description", NullText),
              status |-> Get(data, "status", "draft"),
              startDate |-> data.startDate,
              endDate |-> Get(data, "endDate", NullDate),
              location |-> Get(data, "location", NullText),
              tags |-> Get(data, "tags", <<>>),
              updatedAt |-> Get(data, "updatedAt", t)]
  IN [db EXCEPT !.events = (db.nextId :> row) @@ @,
                !.nextId = @ + 1,
                !.now = @ + 1]

\* BaseRepository.update on events: SET the keys of data WHERE id = id
eventsUpdate(db, id, data) ==
  IF id \in DOMAIN db.events
  THEN [db EXCEPT !.events[id] =
          [f \in DOMAIN @ |-> IF f \in DOMAIN data THEN data[f] ELSE @[f]],
                  !.now = @ + 1]
  ELSE db

\* the foreign key notifications.event_id -> events.id
ForeignKeyHolds_unchecked(db, eventId) == TRUE

ForeignKeyHolds(db, eventId) == eventId \in DOMAIN db.events

\* ON DELETE cascade of notifications.event_id
cascade(notifs, id) ==
  [n \in {m \in DOMAIN notifs : notifs[m].eventId # id} |-> notifs[n]]

\* BaseRepository.delete on events
eventsDelete(db, id) ==
  [db EXCEPT !.events = [e \in DOMAIN @ \ {id} |-> @[e]],
             !.notifications = cascade(@, id)]

\* BaseRepository.create on notifications: the insert throws when the
\* database refuses it, for a fault of its own or for the foreign key
notificationsCreate(db, data) ==
  IF db.fault THEN Fail(db, "InsertFailed")
  ELSE IF ForeignKeyHolds(db, data.eventId)
  THEN Ok([db EXCEPT !.notifications =
                        (db.nextNid :> [eventId |-> data.eventId,
                                        title |-> data.title,
                                        message |-> data.message,
                                        isRead |-> Get(data, "isRead", 0)]) @@ @,
                     !.nextNid = @ + 1])
  ELSE Fail(db, "ForeignKeyViolation")

----------------------------------------------------------------------------
(* EventService *)

validateEventDates_lt(startDate, endDate) ==
  ~(endDate # NullDate /\ endDate < startDate)

\* TRUE when validateEventDates returns, FALSE when it throws
validateEventDates(startDate, endDate) ==
  ~(endDate # NullDate /\ endDate <= startDate)

\* JavaScript truthiness of changes.<key>
TruthyDate(obj, key) == key \in DOMAIN obj /\ obj[key] # NullDate

TruthyName(obj) == "name" \in DOMAIN obj /\ obj.name # EmptyString

TruthyStatus(obj) == "status" \in DOMAIN obj

\* the lifecycle notification each operation hands to
\* notificationRepository.create
lifecycleNotification(op, eventId, name) ==
  CASE op = "create" ->
         [eventId |-> eventId, title |-> "Event Created",
          message |-> <<"Event \"", name, "\" has been created">>]
    [] op = "update" ->
         [eventId |-> eventId, title |-> "Event Updated",
          message |-> <<"Event has been updated">>]
    [] op = "publish" ->
         [eventId |-> eventId, title |-> "Event Published",
          message |-> <<"Event \"", name, "\" has been published">>]
    [] op = "archive" ->
         [eventId |-> eventId, title |-> "Event Archived",
          message |-> <<"Event \"", name, "\" has been archived">>]
    [] op = "duplicate" ->
         [eventId |-> eventId, title |-> "Event Duplicated",
          message |-> <<"Event \"", name, "\" has been created as a copy">>]

get_noAssert(db, id) == Ok(db)

get(db, id) ==
  IF Exists(db, id) THEN Ok(db) ELSE Fail(db, "NotFound")

createData_defaultPublished(data, t) ==
  [status |-> IF TruthyStatus(data) THEN data.status ELSE "published",
   updatedAt |-> t] @@ data

\* the object create() hands to repository.create
createData(data, t) ==
  [status |-> IF TruthyStatus(data) THEN data.status ELSE "draft",
   updatedAt |-> t] @@ data

create(db, data, t) ==
  IF ~validateEventDates(data.startDate, Get(data, "endDate", NullDate))
  THEN Fail(db, "ValidationFailed")
  ELSE LET id == db.nextId
           db1 == eventsCreate(db, createData(data, t), t)
           out == notificationsCreate(db1,
                    lifecycleNotification("create", id, db1.events[id].name))
       IN [out EXCEPT !.newId = IF out.result = "ok" THEN id ELSE 0]

\* the dates update() hands to validateEventDates
MergedStart(existing, changes) ==
  IF TruthyDate(changes, "startDate") THEN changes.startDate
  ELSE existing.startDate

MergedEnd_stored(existing, changes) == existing.endDate

MergedEnd(existing, changes) ==
  IF TruthyDate(changes, "endDate") THEN changes.endDate
  ELSE existing.endDate

ChecksDates(changes) ==
  TruthyDate(changes, "startDate") \/ TruthyDate(changes, "endDate")

Significant(changes) ==
  TruthyStatus(changes) \/ TruthyName(changes)
    \/ TruthyDate(changes, "startDate")

updateData_keepsStamp(changes, t) == changes

\* the object update() hands to repository.update
updateData(changes, t) == [updatedAt |-> t] @@ changes

update_guarded(db, id, changes, t) ==
  IF ChecksDates(changes) /\ ~Exists(db, id)
  THEN Fail(db, "NotFound")
  ELSE IF ChecksDates(changes)
          /\ ~validateEventDates(MergedStart(db.events[id], changes),
                                 MergedEnd(db.events[id], changes))
  THEN Fail(db, "ValidationFailed")
  ELSE IF Exists(db, id) /\ TruthyStatus(changes)
          /\ db.events[id].status = "archived"
          /\ changes.status # "archived"
  THEN Fail(db, "InvalidTransition")
  ELSE LET db1 == eventsUpdate(db, id, updateData(changes, t))
       IN IF ~Exists(db, id)
          THEN Fail(db1, "NotFound")
          ELSE IF Significant(changes)
          THEN notificationsCreate(db1,
                 lifecycleNotification("update", id, EmptyString))
          ELSE Ok(db1)

update(db, id, changes, t) ==
  IF ChecksDates(changes) /\ ~Exists(db, id)
  THEN Fail(db, "NotFound")
  ELSE IF ChecksDates(changes)
          /\ ~validateEventDates(MergedStart(db.events[id], changes),
                                 MergedEnd(db.events[id], changes))
  THEN Fail(db, "ValidationFailed")
  ELSE LET db1 == eventsUpdate(db, id, updateData(changes, t))
       IN IF ~Exists(db, id)
          THEN Fail(db1, "NotFound")
          ELSE IF Significant(changes)
          THEN notificationsCreate(db1,
                 lifecycleNotification("update", id, EmptyString))
          ELSE Ok(db1)

remove(db, id) ==
  Outcome(eventsDelete(db, id), "ok", 0, Exists(db, id))

CanPublish_notArchived(event) == event.status # "archived"

CanPublish(event) == event.status = "draft"

publish_rollsBack(db, id, t) ==
  IF ~Exists(db, id) THEN Fail(db, "NotFound")
  ELSE IF ~CanPublish(db.events[id]) THEN Fail(db, "InvalidTransition")
  ELSE LET db1 == eventsUpdate(db, id,
                    [status |-> "published", updatedAt |-> t])
           out == notificationsCreate(db1,
                    lifecycleNotification("publish", id, db.events[id].name))
       IN IF out.result = "ok" THEN out ELSE Fail(db, out.result)

publish(db, id, t) ==
  IF ~Exists(db, id) THEN Fail(db, "NotFound")
  ELSE IF ~CanPublish(db.events[id]) THEN Fail(db, "InvalidTransition")
  ELSE LET db1 == eventsUpdate(db, id,
                    [status |-> "published", updatedAt |-> t])
       IN notificationsCreate(db1,
            lifecycleNotification("publish", id, db.events[id].name))

CanArchive_always(event) == TRUE

CanArchive(event) == event.status # "archived"

archive(db, id, t) ==
  IF ~Exists(db, id) THEN Fail(db, "NotFound")
  ELSE IF ~CanArchive(db.events[id]) THEN Fail(db, "InvalidTransition")
  ELSE LET db1 == eventsUpdate(db, id,
                    [status |-> "archived", updatedAt |-> t])
       IN notificationsCreate(db1,
            lifecycleNotification("archive", id, db.events[id].name))

duplicateData_keepsStatus(event) ==
  [name |-> event.name \o CopySuffix,
   description |-> event.description,
   status |-> event.status,
   startDate |-> event.startDate,
   endDate |-> event.endDate,
   location |-> event.location,
   tags |-> event.tags]

duplicateData(event) ==
  [name |-> event.name \o CopySuffix,
   description |-> event.description,
   status |-> "draft",
   startDate |-> event.startDate,
   endDate |-> event.endDate,
   location |-> event.location,
   tags |-> event.tags]

duplicate_notifiesSource(db, id, t) ==
  IF ~Exists(db, id) THEN Fail(db, "NotFound")
  ELSE LET newId == db.nextId
           db1 == eventsCreate(db, duplicateData(db.events[id]), t)
           out == notificationsCreate(db1,
                    lifecycleNotification("duplicate", id,
                                          db1.events[newId].name))
       IN [out EXCEPT !.newId = IF out.result = "ok" THEN newId ELSE 0]

duplicate(db, id, t) ==
  IF ~Exists(db, id) THEN Fail(db, "NotFound")
  ELSE LET newId == db.nextId
           db1 == eventsCreate(db, duplicateData(db.events[id]), t)
           out == notificationsCreate(db1,
                    lifecycleNotification("duplicate", newId,
                                          db1.events[newId].name))
       IN [out EXCEPT !.newId = IF out.result = "ok" THEN newId ELSE 0]

----------------------------------------------------------------------------
(* EventRepository.findAll / countWithFilters, EventService.findWithFilters *)

\* case folding of ILIKE, over the letters the model uses
Lower(ch) ==
  CASE ch = "A" -> "a"
    [] ch = "B" -> "b"
    [] ch = "C" -> "c"
    [] OTHER -> ch

\* text LIKE pattern, case folded: % stands for any run of characters and
\* _ for any one character
RECURSIVE ILike(_, _)
ILike(text, pattern) ==
  IF pattern = <<>> THEN text = <<>>
  ELSE IF Head(pattern) = "%"
  THEN ILike(text, Tail(pattern))
         \/ (text # <<>> /\ ILike(Tail(text), pattern))
  ELSE /\ text # <<>>
       /\ Head(pattern) = "_" \/ Lower(Head(pattern)) = Lower(Head(text))
       /\ ILike(Tail(text), Tail(pattern))

searchPattern(searchQuery) == <<"%">> \o searchQuery \o <<"%">>

\* JavaScript truthiness of searchQuery and of status
TruthySearch(filters) == "q" \in DOMAIN filters /\ filters.q # EmptyString

TruthyStatusFilter(filters) ==
  "status" \in DOMAIN filters /\ filters.status # ""

\* the WHERE clause of findAll, which is that of countWithFilters
Matches(event, filters) ==
  /\ TruthySearch(filters) =>
       \/ ILike(event.name, searchPattern(filters.q))
       \/ \E i \in DOMAIN event.tags :
            ILike(event.tags[i], searchPattern(filters.q))
  /\ TruthyStatusFilter(filters) => event.status = filters.status

Matching(db, filters) ==
  {id \in DOMAIN db.events : Matches(db.events[id], filters)}

\* the orders in which a SELECT without ORDER BY may yield the rows
Orders(ids) ==
  {order \in [1..Cardinality(ids) -> ids] :
     \A i, j \in DOMAIN order : order[i] = order[j] => i = j}

Min(a, b) == IF a <= b THEN a ELSE b

findAll_nextPage(page, pageSize, order) ==
  LET offset == page * pageSize
  IN SubSeq(order, offset + 1, Min(offset + pageSize, Len(order)))

\* LIMIT pageSize OFFSET (page - 1) * pageSize over the matching rows
findAll(page, pageSize, order) ==
  LET offset == (page - 1) * pageSize
  IN SubSeq(order, offset + 1, Min(offset + pageSize, Len(order)))

countWithFilters(db, filters) == Cardinality(Matching(db, filters))

findWithFilters(db, page, pageSize, filters, order) ==
  [data |-> findAll(page, pageSize, order),
   total |-> countWithFilters(db, filters),
   page |-> page,
   pageSize |-> pageSize]

----------------------------------------------------------------------------
(* NotificationService *)

VALID_NOTIFICATION_TYPES == {"info", "warning", "error", "success"}

\* what a NotificationService method did: the store after it, how it ended,
\* the rows its UPDATE statement wrote and the rows it returned
NOutcome(db, result, written, returned) ==
  [db |-> db, result |-> result, written |-> written, returned |-> returned]

\* the notifications whose event_id is eventId
OfEvent(db, eventId) ==
  {n \in DOMAIN db.notifications : db.notifications[n].eventId = eventId}

\* UPDATE notifications SET is_read = 1 over the rows in ids
setRead(db, ids) ==
  [db EXCEPT !.notifications =
     [n \in DOMAIN @ |-> IF n \in ids THEN [@[n] EXCEPT !.isRead = 1]
                                      ELSE @[n]]]

\* NotificationRepository.markAsRead: ... WHERE id = id RETURNING *
notificationsMarkAsRead(db, id) ==
  LET rows == {n \in DOMAIN db.notifications : n = id}
  IN NOutcome(setRead(db, rows), "ok", rows, rows)

notificationsMarkAllAsReadForEvent_all(db, eventId) ==
  LET rows == DOMAIN db.notifications
  IN NOutcome(setRead(db, rows), "ok", rows, rows)

\* NotificationRepository.markAllAsReadForEvent:
\* ... WHERE event_id = eventId RETURNING *
notificationsMarkAllAsReadForEvent(db, eventId) ==
  LET rows == OfEvent(db, eventId)
  IN NOutcome(setRead(db, rows), "ok", rows, rows)

markAsRead_alwaysWrites(db, id) ==
  IF id \notin DOMAIN db.notifications
  THEN NOutcome(db, "NotFound", {}, {})
  ELSE notificationsMarkAsRead(db, id)

markAsRead(db, id) ==
  IF id \notin DOMAIN db.notifications
  THEN NOutcome(db, "NotFound", {}, {})
  ELSE IF db.notifications[id].isRead = 1
  THEN NOutcome(db, "ok", {}, {id})
  ELSE notificationsMarkAsRead(db, id)

markAllReadForEvent(db, eventId) ==
  notificationsMarkAllAsReadForEvent(db, eventId)

\* NotificationService.update: SET the keys of changes WHERE id = id
updateNotification(db, id, changes) ==
  IF id \notin DOMAIN db.notifications
  THEN NOutcome(db, "NotFound", {}, {})
  ELSE NOutcome([db EXCEPT !.notifications[id] =
                   [f \in DOMAIN @ |-> IF f \in DOMAIN changes
                                        THEN changes[f] ELSE @[f]]],
                "ok", {id}, {id})

\* NotificationService.remove: DELETE ... WHERE id = id
removeNotification(db, id) ==
  NOutcome([db EXCEPT !.notifications = [n \in DOMAIN @ \ {id} |-> @[n]]],
           "ok", {}, {})

createEventNotification_anyType(db, eventId, title, message, type) ==
  notificationsCreate(db, [eventId |-> eventId, title |-> title,
                           message |-> message, isRead |-> 0])

createEventNotification(db, eventId, title, message, type) ==
  IF type \notin VALID_NOTIFICATION_TYPES
  THEN Fail(db, "InvalidArgument")
  ELSE notificationsCreate(db, [eventId |-> eventId, title |-> title,
                                message |-> message, isRead |-> 0])

----------------------------------------------------------------------------
(* OpenAPIServiceHandlers *)

DefaultPage == 1

DefaultPageSize == 25

\* Math.ceil(a / b)
Ceil(a, b) == (a + b - 1) \div b

listEvents(db, query, order) ==
  LET result == findWithFilters(db, Get(query, "page", DefaultPage),
                                Get(query, "pageSize", DefaultPageSize),
                                query, order)
  IN [data |-> result.data,
      meta |-> [page |-> result.page,
                pageSize |-> result.pageSize,
                totalPages |-> Ceil(result.total, result.pageSize),
                totalItems |-> result.total]]

deleteEvent(db, id, permanent, t) ==
  IF permanent THEN remove(db, id) ELSE archive(db, id, t)

\* JavaScript truthiness of body.reason
\* duplicate, then update with the whole body when it has a name or tags
duplicateEvent(db, id, body, t) ==
  LET duplicated == duplicate(db, id, t)
  IN IF duplicated.result # "ok" THEN duplicated
     ELSE IF TruthyName(body) \/ "tags" \in DOMAIN body
     THEN [update(duplicated.db, duplicated.newId, body, duplicated.db.now)
             EXCEPT !.newId = duplicated.newId]
     ELSE duplicated

TruthyReason(body) == "reason" \in DOMAIN body /\ body.reason # EmptyString

cancelEvent_alwaysNotifies(db, id, body, t) ==
  LET cancelled == archive(db, id, t)
  IN IF cancelled.result # "ok" THEN cancelled
     ELSE createEventNotification(cancelled.db, id, "Event Cancelled",
            <<"Event was cancelled. Reason: ", Get(body, "reason", EmptyString)>>,
            "warning")

cancelEvent(db, id, body, t) ==
  LET cancelled == archive(db, id, t)
  IN IF cancelled.result # "ok" THEN cancelled
     ELSE IF TruthyReason(body)
     THEN createEventNotification(cancelled.db, id, "Event Cancelled",
            <<"Event was cancelled. Reason: ", body.reason>>, "warning")
     ELSE cancelled

eventQuickAction_cancelRemoves(db, id, body, t) ==
  CASE body.action = "view" -> get(db, id)
    [] body.action = "edit" ->
         IF "payload" \in DOMAIN body
         THEN update(db, id, body.payload, t)
         ELSE get(db, id)
    [] body.action = "duplicate" -> duplicate(db, id, t)
    [] body.action = "cancel" -> remove(db, id)
    [] OTHER -> Fail(db, "InvalidArgument")

eventQuickAction(db, id, body, t) ==
  CASE body.action = "view" -> get(db, id)
    [] body.action = "edit" ->
         IF "payload" \in DOMAIN body
         THEN update(db, id, body.payload, t)
         ELSE get(db, id)
    [] body.action = "duplicate" -> duplicate(db, id, t)
    [] body.action = "cancel" -> archive(db, id, t)
    [] OTHER -> Fail(db, "InvalidArgument")

----------------------------------------------------------------------------
(* The client's events store (zustand): set merges the given keys into the *)
(* state and leaves the other keys as they are                             *)

NullStatus == "<none>"

InitialPageSize == 20

InitialStore ==
  [searchQuery |-> EmptyString,
   selectedStatus |-> NullStatus,
   selectedTags |-> <<>>,
   currentPage |-> 1,
   pageSize |-> InitialPageSize,
   sortField |-> "name",
   sortOrder |-> "asc",
   selectedEventIds |-> <<>>]

set(state, partial) ==
  [key \in DOMAIN state |->
     IF key \in DOMAIN partial THEN partial[key] ELSE state[key]]

setSearchQuery(state, query) ==
  set(state, [searchQuery |-> query, currentPage |-> 1])

setSelectedStatus(state, status) ==
  set(state, [selectedStatus |-> status, currentPage |-> 1])

setSelectedTags(state, tags) ==
  set(state, [selectedTags |-> tags, currentPage |-> 1])

setCurrentPage(state, page) == set(state, [currentPage |-> page])

setPageSize(state, size) ==
  set(state, [pageSize |-> size, currentPage |-> 1])

setSorting(state, field, order) ==
  set(state, [sortField |-> field, sortOrder |-> order, currentPage |-> 1])

selectEvent(state, eventId) ==
  LET selectedEventIds == state.selectedEventIds
      isSelected == \E i \in DOMAIN selectedEventIds :
                      selectedEventIds[i] = eventId
      Other(id) == id # eventId
  IN IF isSelected
     THEN set(state, [selectedEventIds |->
                        SelectSeq(selectedEventIds, Other)])
     ELSE set(state, [selectedEventIds |->
                        Append(selectedEventIds, eventId)])

selectAllEvents(state, eventIds) ==
  set(state, [selectedEventIds |-> eventIds])

clearSelection(state) == set(state, [selectedEventIds |-> <<>>])

resetFilters_all(state) == InitialStore

resetFilters(state) ==
  set(state, [searchQuery |-> EmptyString,
              selectedStatus |-> NullStatus,
              selectedTags |-> <<>>,
              currentPage |-> 1,
              sortField |-> "name",
              sortOrder |-> "asc"])

----------------------------------------------------------------------------
(* Operations run one at a time *)

Init ==
  /\ events = NoKeys
  /\ notifications = NoKeys
  /\ nextId = 1
  /\ nextNid = 1
  /\ now = 0
  /\ last = [op |-> "none", result |-> "ok"]
  /\ calls = NoKeys
  /\ fault = FALSE
  /\ store = InitialStore

Commit(out, op) ==
  /\ out.db.now <= MaxWrites
  /\ events' = out.db.events
  /\ notifications' = out.db.notifications
  /\ nextId' = out.db.nextId
  /\ nextNid' = out.db.nextNid
  /\ now' = out.db.now
  /\ last' = [op |-> op, result |-> out.result]
  /\ UNCHANGED <<calls, fault, store>>

Get_(id) == Commit(get(DB, id), "get")

Create(data) == Commit(create(DB, data, now), "create")

Update(id, changes) ==
  Commit(update(DB, id, changes, now), "update")

Remove(id) == Commit(remove(DB, id), "remove")

Publish(id) == Commit(publish(DB, id, now), "publish")

Archive(id) == Commit(archive(DB, id, now), "archive")

Duplicate(id) == Commit(duplicate(DB, id, now), "duplicate")

DeleteEvent(id, permanent) ==
  Commit(deleteEvent(DB, id, permanent, now),
         IF permanent THEN "deleteEventPermanent" ELSE "deleteEvent")

DuplicateEvent(id, body) ==
  Commit(duplicateEvent(DB, id, body, now), "duplicateEvent")

CancelEvent(id, body) == Commit(cancelEvent(DB, id, body, now), "cancelEvent")

EventQuickAction(id, body) ==
  Commit(eventQuickAction(DB, id, body, now), "eventQuickAction")

Next ==
  \/ \E id \in EventIds : Get_(id)
  \/ \E data \in CreateInputs : Create(data)
  \/ \E id \in EventIds, changes \in ChangeSets : Update(id, changes)
  \/ \E id \in EventIds : Remove(id)
  \/ \E id \in EventIds : Publish(id)
  \/ \E id \in EventIds : Archive(id)
  \/ \E id \in EventIds : Duplicate(id)
  \/ \E id \in EventIds, permanent \in BOOLEAN : DeleteEvent(id, permanent)

Spec == Init /\ [][Next]_vars

----------------------------------------------------------------------------
(* Requests served by the OpenAPI handlers, one at a time, on a store      *)
(* filled by create                                                        *)

ApiCreateInputs ==
  { [name |-> <<"A">>, startDate |-> 1] @@ st @@ Details :
      st \in Opt("status", {"published"}) }

InitApi == Init

NextApi ==
  \/ \E data \in ApiCreateInputs : Create(data)
  \/ \E id \in EventIds, permanent \in BOOLEAN : DeleteEvent(id, permanent)
  \/ \E id \in EventIds, body \in DuplicateBodies : DuplicateEvent(id, body)
  \/ \E id \in EventIds, body \in CancelBodies : CancelEvent(id, body)
  \/ \E id \in EventIds, body \in QuickRequests : EventQuickAction(id, body)

SpecApi == InitApi /\ [][NextApi]_vars

----------------------------------------------------------------------------
(* Calls of NotificationService, one at a time, on a store whose events are *)
(* created and removed by EventService                                     *)

NotifCreateInputs == {[name |-> <<"A">>, startDate |-> 1] @@ Details}

InitNotif == Init

CommitNotif(out, op) ==
  /\ out.db.nextNid <= MaxNotifications + 1
  /\ Commit(out, op)

CreateEventNotification(eventId, type) ==
  CommitNotif(createEventNotification(DB, eventId, "Reminder",
                                      <<"Doors open">>, type),
              "createEventNotification")

MarkAsRead(id) == CommitNotif(markAsRead(DB, id), "markAsRead")

MarkAllReadForEvent(eventId) ==
  CommitNotif(markAllReadForEvent(DB, eventId), "markAllReadForEvent")

UpdateNotification(id, changes) ==
  CommitNotif(updateNotification(DB, id, changes), "updateNotification")

RemoveNotification(id) ==
  CommitNotif(removeNotification(DB, id), "removeNotification")

NextNotif ==
  \/ \E data \in NotifCreateInputs : CommitNotif(create(DB, data, now), "create")
  \/ \E id \in EventIds : Remove(id)
  \/ \E eventId \in EventIds, type \in TypeInputs :
       CreateEventNotification(eventId, type)
  \/ \E id \in NotificationIds : MarkAsRead(id)
  \/ \E eventId \in EventIds : MarkAllReadForEvent(eventId)
  \/ \E id \in NotificationIds, changes \in NotificationChangeSets :
       UpdateNotification(id, changes)
  \/ \E id \in NotificationIds : RemoveNotification(id)

SpecNotif == InitNotif /\ [][NextNotif]_vars

----------------------------------------------------------------------------
(* Calls of create, update, publish, archive and remove in flight at the    *)
(* same time: every await of a repository call is a point where another    *)
(* call's step can run                                                     *)

Callers == {"c1", "c2"}

Idle == [pc |-> "idle", op |-> "none", id |-> 0, arg |-> NoKeys,
         row |-> NoKeys]

ConcCreateInputs ==
  {[name |-> <<"A">>, startDate |-> 1] @@ Details}

ConcChangeSets ==
  {[startDate |-> 2], [endDate |-> 2], [status |-> "draft"]}

InitConc ==
  /\ events = NoKeys
  /\ notifications = NoKeys
  /\ nextId = 1
  /\ nextNid = 1
  /\ now = 0
  /\ last = [op |-> "none", result |-> "ok"]
  /\ calls = [c \in Callers |-> Idle]
  /\ fault = FALSE
  /\ store = InitialStore

\* the call goes on to its next await
Goto(c, pc, id, row) ==
  /\ calls' = [calls EXCEPT ![c].pc = pc, ![c].id = id, ![c].row = row]
  /\ UNCHANGED last

\* the call returns or throws
Return(c, result) ==
  /\ calls' = [calls EXCEPT ![c] = Idle]
  /\ last' = [op |-> calls[c].op, result |-> result]

Write(db) ==
  /\ db.now <= MaxWrites
  /\ events' = db.events
  /\ notifications' = db.notifications
  /\ nextId' = db.nextId
  /\ nextNid' = db.nextNid
  /\ now' = db.now
  /\ UNCHANGED <<fault, store>>

\* the synchronous prefix of a call, up to its first await
Begin(c, op, id, arg) ==
  /\ calls[c].pc = "idle"
  /\ UNCHANGED <<events, notifications, nextId, nextNid, now, fault, store>>
  /\ IF op = "create"
        /\ ~validateEventDates(arg.startDate, Get(arg, "endDate", NullDate))
     THEN calls' = calls /\ last' = [op |-> op, result |-> "ValidationFailed"]
     ELSE /\ calls' = [calls EXCEPT ![c] =
                         [pc |-> CASE op = "create" -> "insert"
                                   [] op = "remove" -> "delete"
                                   [] op = "update" /\ ~ChecksDates(arg)
                                        -> "write"
                                   [] OTHER -> "read",
                          op |-> op, id |-> id, arg |-> arg, row |-> NoKeys]]
          /\ UNCHANGED last

\* await this.repository.findById(id) and the checks on its result
Read(c) ==
  LET call == calls[c]
      id == call.id
  IN /\ call.pc = "read"
     /\ UNCHANGED <<events, notifications, nextId, nextNid, now, fault, store>>
     /\ IF ~Exists(DB, id) THEN Return(c, "NotFound")
        ELSE CASE call.op = "update" ->
                    IF validateEventDates(
                         MergedStart(events[id], call.arg),
                         MergedEnd(events[id], call.arg))
                    THEN Goto(c, "write", id, NoKeys)
                    ELSE Return(c, "ValidationFailed")
               [] call.op = "publish" ->
                    IF CanPublish(events[id])
                    THEN Goto(c, "write", id, events[id])
                    ELSE Return(c, "InvalidTransition")
               [] call.op = "archive" ->
                    IF CanArchive(events[id])
                    THEN Goto(c, "write", id, events[id])
                    ELSE Return(c, "InvalidTransition")

\* await this.repository.update(id, ...)
WriteEvent(c) ==
  LET call == calls[c]
      id == call.id
  IN /\ call.pc = "write"
     /\ CASE call.op = "update" ->
               /\ Write(eventsUpdate(DB, id, updateData(call.arg, now)))
               /\ IF ~Exists(DB, id) THEN Return(c, "NotFound")
                  ELSE IF Significant(call.arg)
                  THEN Goto(c, "notify", id, NoKeys)
                  ELSE Return(c, "ok")
          [] call.op = "publish" ->
               /\ Write(eventsUpdate(DB, id,
                          [status |-> "published", updatedAt |-> now]))
               /\ Goto(c, "notify", id, call.row)
          [] call.op = "archive" ->
               /\ Write(eventsUpdate(DB, id,
                          [status |-> "archived", updatedAt |-> now]))
               /\ Goto(c, "notify", id, call.row)

\* await this.repository.create(...)
InsertEvent(c) ==
  LET call == calls[c]
      db1 == eventsCreate(DB, createData(call.arg, now), now)
  IN /\ call.pc = "insert"
     /\ Write(db1)
     /\ Goto(c, "notify", nextId, db1.events[nextId])

\* await this.notificationRepository.create(...)
Notify(c) ==
  LET call == calls[c]
      name == IF call.op = "update" THEN EmptyString ELSE call.row.name
      out == notificationsCreate(DB,
               lifecycleNotification(call.op, call.id, name))
  IN /\ call.pc = "notify"
     /\ Write(out.db)
     /\ Return(c, out.result)

\* await this.repository.delete(id)
DeleteEvent_(c) ==
  /\ calls[c].pc = "delete"
  /\ Write(eventsDelete(DB, calls[c].id))
  /\ Return(c, "ok")

NextConc ==
  \/ \E c \in Callers, data \in ConcCreateInputs :
       Begin(c, "create", 0, data)
  \/ \E c \in Callers, id \in EventIds, changes \in ConcChangeSets :
       Begin(c, "update", id, changes)
  \/ \E c \in Callers, id \in EventIds,
        op \in {"remove", "publish", "archive"} :
       Begin(c, op, id, NoKeys)
  \/ \E c \in Callers : Read(c)
  \/ \E c \in Callers : WriteEvent(c)
  \/ \E c \in Callers : InsertEvent(c)
  \/ \E c \in Callers : Notify(c)
  \/ \E c \in Callers : DeleteEvent_(c)

SpecConc == InitConc /\ [][NextConc]_vars

----------------------------------------------------------------------------
(* One listEvents request on a store of up to MaxListed events *)

InitList ==
  \E n \in 0..MaxListed :
    \E table \in [1..n -> ListRows] :
      /\ events = table
      /\ notifications = NoKeys
      /\ nextId = n + 1
      /\ nextNid = 1
      /\ now = n
      /\ last = [op |-> "none", result |-> "ok"]
      /\ calls = NoKeys
      /\ fault = FALSE
      /\ store = InitialStore

\* one request on the store; its reply is kept in last
ListEvents(query, order) ==
  /\ last.op = "none"
  /\ last' = [op |-> "listEvents", result |-> "ok", query |-> query,
              reply |-> listEvents(DB, query, order)]
  /\ UNCHANGED <<events, notifications, nextId, nextNid, now, calls, fault,
               store>>

NextList ==
  /\ last.op = "none"
  /\ \E query \in ListQueries :
       \E order \in Orders(Matching(DB, query)) : ListEvents(query, order)

SpecList == InitList /\ [][NextList]_vars

----------------------------------------------------------------------------
(* Properties of EventService, operations run one at a time *)

\* an operation left both tables as they were
Untouched(out) == out.db = DB

\* C1: every stored event whose endDate is set has endDate strictly after
\* its startDate, in every state reached by the operations run one at a time
C1_EndAfterStart ==
  \A id \in DOMAIN events :
    events[id].endDate # NullDate =>
      events[id].endDate > events[id].startDate

C1_Witness ==
  /\ last = [op |-> "update", result |-> "ok"]
  /\ \E id \in DOMAIN events :
        events[id].endDate # NullDate /\ events[id].updatedAt = 1

\* C2: create with an endDate that is set and not strictly after startDate
\* fails with a validation error and leaves both tables as they were
C2_CreateRejectsBadDates ==
  \A data \in CreateInputs :
    ("endDate" \in DOMAIN data /\ data.endDate <= data.startDate) =>
      LET out == create(DB, data, now)
      IN out.result = "ValidationFailed" /\ Untouched(out)

C2_Witness ==
  /\ last = [op |-> "create", result |-> "ValidationFailed"]
  /\ events # NoKeys

\* C3: publish succeeds exactly from 'draft'; from 'published' or 'archived'
\* it fails with an invalid-transition error and changes neither table
C3_PublishOnlyFromDraft ==
  \A id \in DOMAIN events :
    LET out == publish(DB, id, now)
    IN /\ out.result = "ok" <=> events[id].status = "draft"
       /\ events[id].status \in {"published", "archived"} =>
            out.result = "InvalidTransition" /\ Untouched(out)

C3_Witness ==
  /\ last = [op |-> "publish", result |-> "InvalidTransition"]
  /\ \E id \in DOMAIN events : events[id].updatedAt < now

\* C4: archive fails with an invalid-transition error and changes nothing
\* when the event is already 'archived'; from 'draft' or 'published' it
\* succeeds and leaves the event 'archived'
C4_ArchiveGuard ==
  \A id \in DOMAIN events :
    LET out == archive(DB, id, now)
    IN IF events[id].status = "archived"
       THEN out.result = "InvalidTransition" /\ Untouched(out)
       ELSE out.result = "ok" /\ out.db.events[id].status = "archived"

C4_Witness ==
  /\ last = [op |-> "archive", result |-> "InvalidTransition"]
  /\ \E id \in DOMAIN events : events[id].status = "archived"

\* C5: for an id that resolves to no stored event, get, update (any change
\* set), publish, archive and duplicate fail with a not-found error and
\* leave both tables as they were
C5_NotFound ==
  \A id \in EventIds \ DOMAIN events :
    /\ \A out \in {get(DB, id), publish(DB, id, now), archive(DB, id, now),
                    duplicate(DB, id, now)} :
         out.result = "NotFound" /\ Untouched(out)
    /\ \A changes \in ChangeSets :
         LET out == update(DB, id, changes, now)
         IN out.result = "NotFound" /\ Untouched(out)

C5_Witness ==
  /\ last = [op |-> "update", result |-> "NotFound"]
  /\ events # NoKeys
  /\ EventIds \ DOMAIN events # {}

\* C6: remove(id), and deleteEvent with permanent=true, fail with a
\* not-found error when the id resolves to no stored event
C6_RemoveMissingFails ==
  [][\A id \in EventIds \ DOMAIN events :
       (Remove(id) \/ DeleteEvent(id, TRUE)) => last'.result = "NotFound"]_vars

\* C7: every stored notification's eventId is the id of a stored event, also
\* when remove runs between the steps of a lifecycle operation on the same
\* event, whose notification is then written after the delete
C7_NotificationsHaveEvent ==
  \A n \in DOMAIN notifications :
    notifications[n].eventId \in DOMAIN events

C7_Witness ==
  /\ last = [op |-> "publish", result |-> "ForeignKeyViolation"]
  /\ events = NoKeys
  /\ notifications = NoKeys

\* C8: a successful update adds exactly one 'Event Updated' notification for
\* the event when the change set contains status, name or startDate, and
\* none when it contains none of the three
C8_UpdateNotifies ==
  [][\A id \in DOMAIN events, changes \in ChangeSets :
       (Update(id, changes) /\ last'.result = "ok") =>
         IF DOMAIN changes \cap {"status", "name", "startDate"} # {}
         THEN /\ Cardinality(DOMAIN notifications')
                   = Cardinality(DOMAIN notifications) + 1
              /\ \A n \in DOMAIN notifications' \ DOMAIN notifications :
                   /\ notifications'[n].eventId = id
                   /\ notifications'[n].title = "Event Updated"
         ELSE notifications' = notifications]_vars

\* C9: when the change set contains startDate or endDate, update is rejected
\* exactly when the merged endDate (the change set's value if the key is
\* present, null included, else the stored one) is set and is not strictly
\* after the merged startDate
C9_MergedDateCheck ==
  [][\A id \in DOMAIN events, changes \in ChangeSets :
       (Update(id, changes)
          /\ DOMAIN changes \cap {"startDate", "endDate"} # {}) =>
         LET startDate == Get(changes, "startDate", events[id].startDate)
             endDate == Get(changes, "endDate", events[id].endDate)
         IN last'.result = "ValidationFailed"
              <=> (endDate # NullDate /\ endDate <= startDate)]_vars

Added(out) == DOMAIN out.db.notifications \ DOMAIN notifications

\* the notifications the store held before the operation are still there
KeptNotifications(out) ==
  \A n \in DOMAIN notifications :
    n \in DOMAIN out.db.notifications
      /\ out.db.notifications[n] = notifications[n]

\* C14: create with the status omitted stores the event as 'draft', and
\* every successful create adds exactly one notification, titled
\* 'Event Created', whose eventId is the id of the new event
C14_CreateDefaultsAndNotifies ==
  \A data \in CreateInputs :
    LET out == create(DB, data, now)
    IN out.result = "ok" =>
         /\ out.newId \in DOMAIN out.db.events \ DOMAIN events
         /\ "status" \notin DOMAIN data =>
              out.db.events[out.newId].status = "draft"
         /\ Cardinality(Added(out)) = 1
         /\ KeptNotifications(out)
         /\ \A n \in Added(out) :
              /\ out.db.notifications[n].title = "Event Created"
              /\ out.db.notifications[n].eventId = out.newId

C14_Witness ==
  /\ last = [op |-> "create", result |-> "ok"]
  /\ \E id \in DOMAIN events, n \in DOMAIN notifications :
        /\ events[id].status = "draft"
        /\ events[id].updatedAt = now - 1
        /\ notifications[n].eventId = id
        /\ notifications[n].title = "Event Created"

C16_QuickActionDispatch ==
  \A id \in EventIds, body \in QuickBodies :
    LET out == eventQuickAction(DB, id, body, now)
    IN CASE body.action = "view" -> out = get(DB, id)
         [] body.action = "edit" /\ "payload" \in DOMAIN body ->
              out = update(DB, id, body.payload, now)
         [] body.action = "edit" /\ "payload" \notin DOMAIN body ->
              out = get(DB, id)
         [] body.action = "duplicate" -> out = duplicate(DB, id, now)
         [] body.action = "cancel" -> out = archive(DB, id, now)
         [] OTHER -> out.result = "InvalidArgument" /\ Untouched(out)

C16_Witness ==
  /\ last = [op |-> "eventQuickAction", result |-> "InvalidTransition"]
  /\ \E id \in DOMAIN events : events[id].status = "archived"

----------------------------------------------------------------------------
(* Properties of NotificationService *)

\* C11: for every stored notification, markAsRead twice leaves the store as
\* markAsRead once does (isRead = 1, nothing else changed), the second call
\* raises no error, and a call on a read notification writes no row
C11_MarkAsReadIdempotent ==
  \A id \in DOMAIN notifications :
    LET once == markAsRead(DB, id)
        twice == markAsRead(once.db, id)
    IN /\ once.result = "ok"
       /\ once.db = [DB EXCEPT !.notifications[id].isRead = 1]
       /\ twice.result = "ok"
       /\ twice.db = once.db
       /\ twice.written = {}
       /\ notifications[id].isRead = 1 => once.written = {}

C11_Witness ==
  /\ last = [op |-> "markAsRead", result |-> "ok"]
  /\ \E id \in DOMAIN notifications, other \in DOMAIN notifications :
        notifications[id].isRead = 1 /\ notifications[other].isRead = 0

\* C17 as stated: createEventNotification stores one notification with
\* isRead = 0 when the type is info, warning, error or success, and for any
\* other type fails with an invalid-argument error and stores nothing
C17_CreateEventNotification ==
  [][\A eventId \in EventIds, type \in TypeInputs :
       CreateEventNotification(eventId, type) =>
         IF type \in {"info", "warning", "error", "success"}
         THEN /\ last'.result = "ok"
              /\ \E n \in DOMAIN notifications' \ DOMAIN notifications :
                   notifications'[n].isRead = 0
         ELSE /\ last'.result = "InvalidArgument"
              /\ notifications' = notifications]_vars

\* C17 amended: for an eventId that resolves to a stored event,
\* createEventNotification with a type among info, warning, error, success
\* stores exactly one notification, for that event, with isRead = 0; for an
\* eventId that resolves to no stored event it fails on the foreign key and
\* stores nothing; for any other type it fails with an invalid-argument
\* error and stores nothing, whatever the eventId
C17_CreateEventNotificationOfStoredEvent ==
  \A eventId \in EventIds, type \in TypeInputs :
    LET out == createEventNotification(DB, eventId, "Reminder",
                                       <<"Doors open">>, type)
    IN IF type \notin {"info", "warning", "error", "success"}
       THEN out.result = "InvalidArgument" /\ Untouched(out)
       ELSE IF eventId \notin DOMAIN events
       THEN out.result = "ForeignKeyViolation" /\ Untouched(out)
       ELSE /\ out.result = "ok"
            /\ KeptNotifications(out)
            /\ Cardinality(Added(out)) = 1
            /\ \A n \in Added(out) :
                 /\ out.db.notifications[n].isRead = 0
                 /\ out.db.notifications[n].eventId = eventId

C17_Witness ==
  /\ last = [op |-> "createEventNotification", result |-> "ok"]
  /\ \E n \in DOMAIN notifications :
        /\ notifications[n].title = "Reminder"
        /\ notifications[n].isRead = 0
        /\ notifications[n].eventId \in DOMAIN events

\* C18: after markAllReadForEvent(eventId) every notification of that event
\* is read, and every notification of any other event is as it was
C18_MarkAllReadFrame ==
  \A eventId \in EventIds :
    LET out == markAllReadForEvent(DB, eventId)
    IN /\ out.result = "ok"
       /\ DOMAIN out.db.notifications = DOMAIN notifications
       /\ \A n \in DOMAIN notifications :
            IF notifications[n].eventId = eventId
            THEN out.db.notifications[n].isRead = 1
            ELSE out.db.notifications[n] = notifications[n]

C18_Witness ==
  /\ last = [op |-> "markAllReadForEvent", result |-> "ok"]
  /\ \E n \in DOMAIN notifications, m \in DOMAIN notifications,
        other \in DOMAIN notifications :
        /\ n # m
        /\ notifications[n].eventId = notifications[m].eventId
        /\ notifications[n].isRead = 1
        /\ notifications[m].isRead = 1
        /\ notifications[other].eventId # notifications[n].eventId
        /\ notifications[other].isRead = 0

\* C19: markAllReadForEvent(eventId) returns exactly the notifications of
\* the event that were unread before the call; when the event has no unread
\* notification the returned set is empty
C19_MarkAllReadReturnsFlipped ==
  [][\A eventId \in EventIds :
       MarkAllReadForEvent(eventId) =>
         markAllReadForEvent(DB, eventId).returned
           = {n \in DOMAIN notifications :
                /\ notifications[n].eventId = eventId
                /\ notifications[n].isRead = 0}]_vars

\* C20: in every step, a stored notification keeps its eventId, title and
\* message, its isRead flag does not go from read to unread, and it leaves
\* the store only if its event leaves the store in the same step
C20_NotificationsOnlyFlipToRead ==
  [][\A n \in DOMAIN notifications :
       IF n \in DOMAIN notifications'
       THEN /\ notifications'[n].eventId = notifications[n].eventId
            /\ notifications'[n].title = notifications[n].title
            /\ notifications'[n].message = notifications[n].message
            /\ notifications'[n].isRead >= notifications[n].isRead
       ELSE notifications[n].eventId \notin DOMAIN events']_vars

----------------------------------------------------------------------------
(* Properties of the event list *)

Max(a, b) == IF a >= b THEN a ELSE b

\* the search text is a substring of the text, letter case aside
IsSubstring(q, text) ==
  \E i \in 1..(Len(text) + 1) :
    /\ i + Len(q) - 1 <= Len(text)
    /\ \A k \in 1..Len(q) : Lower(text[i + k - 1]) = Lower(q[k])

\* C12: over a store with N events matching the filters, a list request
\* with page >= 1 and pageSize >= 1 returns exactly
\* min(pageSize, max(0, N - (page - 1) * pageSize)) rows, each matching the
\* filters, and reports totalItems = N and totalPages = ceil(N / pageSize)
C12_PageSizeAndTotals ==
  last.op = "listEvents" =>
    LET page == last.reply.meta.page
        pageSize == last.reply.meta.pageSize
        N == Cardinality(Matching(DB, last.query))
    IN (page >= 1 /\ pageSize >= 1) =>
         /\ Len(last.reply.data)
              = Min(pageSize, Max(0, N - (page - 1) * pageSize))
         /\ \A i \in DOMAIN last.reply.data :
              /\ last.reply.data[i] \in DOMAIN events
              /\ Matches(events[last.reply.data[i]], last.query)
         /\ last.reply.meta.totalItems = N
         /\ \E k \in 0..N :
              /\ last.reply.meta.totalPages = k
              /\ k * pageSize >= N
              /\ k = 0 \/ (k - 1) * pageSize < N

C12_Witness ==
  /\ last.op = "listEvents"
  /\ "q" \in DOMAIN last.query
  /\ last.reply.meta.page = 2
  /\ last.reply.meta.pageSize = 2
  /\ last.reply.meta.totalItems = 3
  /\ last.reply.meta.totalPages = 2
  /\ Len(last.reply.data) = 1

\* C13: the events a list request returns and counts are exactly those for
\* which (no search text is given, or the search text is a substring, letter
\* case aside, of the name or of a tag) and (no status is given, or the
\* status is the given one)
C13_FilterIsSubstringMatch ==
  last.op = "listEvents" =>
    LET q == Get(last.query, "q", EmptyString)
        meant == { id \in DOMAIN events :
                     /\ \/ q = EmptyString
                        \/ IsSubstring(q, events[id].name)
                        \/ \E i \in DOMAIN events[id].tags :
                             IsSubstring(q, events[id].tags[i])
                     /\ \/ "status" \notin DOMAIN last.query
                        \/ events[id].status = last.query.status }
    IN /\ last.reply.meta.totalItems = Cardinality(meant)
       /\ \A i \in DOMAIN last.reply.data : last.reply.data[i] \in meant

----------------------------------------------------------------------------
(* Properties of the generic update and of the lifecycle notifications *)

\* C21: the generic update applies no status-workflow guard: on a stored
\* event of any status, update(id, {status: s}) succeeds for every status s
\* and stores s, so an archived or published event can be moved back to
\* 'draft', and an event moved back to 'draft' can be published again
C21_UpdateHasNoStatusGuard ==
  \A id \in DOMAIN events, s \in Statuses :
    LET out == update(DB, id, [status |-> s], now)
    IN /\ out.result = "ok"
       /\ out.db.events[id].status = s
       /\ s = "draft" => publish(out.db, id, out.db.now).result = "ok"

\* an event that update, not archive, has made 'archived'
C21_Witness ==
  /\ last = [op |-> "update", result |-> "ok"]
  /\ \E id \in DOMAIN events :
        /\ events[id].status = "archived"
        /\ \E n \in DOMAIN notifications :
              /\ notifications[n].eventId = id
              /\ notifications[n].title = "Event Updated"
        /\ \A n \in DOMAIN notifications :
              notifications[n].eventId = id =>
                notifications[n].title # "Event Archived"

\* the notifications an outcome holds for one event
NotificationsOf(out, eventId) ==
  {n \in DOMAIN out.db.notifications :
     out.db.notifications[n].eventId = eventId}

\* C24: each successful publish, archive and duplicate adds exactly one
\* notification and changes or removes none: 'Event Published' and
\* 'Event Archived' belong to the target event, 'Event Duplicated' to the
\* new copy, which has this one notification and none of the source's
C24_LifecycleNotifications ==
  \A id \in EventIds :
    LET pub == publish(DB, id, now)
        arc == archive(DB, id, now)
        dup == duplicate(DB, id, now)
    IN /\ pub.result = "ok" =>
            /\ Cardinality(Added(pub)) = 1
            /\ KeptNotifications(pub)
            /\ \A n \in Added(pub) :
                 /\ pub.db.notifications[n].title = "Event Published"
                 /\ pub.db.notifications[n].eventId = id
       /\ arc.result = "ok" =>
            /\ Cardinality(Added(arc)) = 1
            /\ KeptNotifications(arc)
            /\ \A n \in Added(arc) :
                 /\ arc.db.notifications[n].title = "Event Archived"
                 /\ arc.db.notifications[n].eventId = id
       /\ dup.result = "ok" =>
            /\ Cardinality(Added(dup)) = 1
            /\ KeptNotifications(dup)
            /\ \A n \in Added(dup) :
                 /\ dup.db.notifications[n].title = "Event Duplicated"
                 /\ dup.db.notifications[n].eventId = dup.newId
            /\ NotificationsOf(dup, dup.newId) = Added(dup)

C24_Witness ==
  /\ last = [op |-> "duplicate", result |-> "ok"]
  /\ \E src \in DOMAIN events, copy \in DOMAIN events :
        /\ events[copy].name = events[src].name \o CopySuffix
        /\ \E n \in DOMAIN notifications : notifications[n].eventId = src
        /\ \E n \in DOMAIN notifications :
              /\ notifications[n].title = "Event Duplicated"
              /\ {m \in DOMAIN notifications :
                    notifications[m].eventId = copy} = {n}

\* C25: a successful update(id, changes) stores, on event id, the value of
\* every field of the change set and the time of the call as updatedAt;
\* every other field of that event and every other event keep their values
C25_UpdateFrame ==
  \A id \in DOMAIN events, changes \in ChangeSets :
    LET out == update(DB, id, changes, now)
    IN out.result = "ok" =>
         /\ DOMAIN out.db.events = DOMAIN events
         /\ \A e \in DOMAIN events \ {id} : out.db.events[e] = events[e]
         /\ out.db.events[id].updatedAt = now
         /\ \A f \in DOMAIN events[id] \ {"updatedAt"} :
              out.db.events[id][f] =
                IF f \in DOMAIN changes THEN changes[f] ELSE events[id][f]

\* an update of the location alone has been stored
C25_Witness ==
  /\ last = [op |-> "update", result |-> "ok"]
  /\ \E id \in DOMAIN events :
        /\ events[id].location = NullText
        /\ events[id].updatedAt = now - 1
        /\ events[id].name = <<"A">>
        /\ events[id].status = "draft"

----------------------------------------------------------------------------
(* Properties of the deleteEvent and duplicateEvent handlers *)

\* C22: deleteEvent on the id of a stored event never fails, whatever the
\* status of the event: with permanent = true the event is removed, without
\* it the event stays stored with status 'archived'
C22_DeleteEventNeverFails ==
  [][\A id \in DOMAIN events, permanent \in BOOLEAN :
       DeleteEvent(id, permanent) =>
         /\ last'.result = "ok"
         /\ permanent => id \notin DOMAIN events'
         /\ ~permanent => /\ id \in DOMAIN events'
                          /\ events'[id].status = "archived"]_vars

\* C23: duplicateEvent leaves the new copy with status 'draft', whatever the
\* status of the source and whatever fields the request body carries, the
\* follow-up update of a body with a name or tags included
C23_DuplicateEventKeepsDraft ==
  \A id \in DOMAIN events, body \in DuplicateBodies :
    LET out == duplicateEvent(DB, id, body, now)
    IN out.result = "ok" => out.db.events[out.newId].status = "draft"

----------------------------------------------------------------------------
(* Operations run one at a time while the database, at times, refuses      *)
(* inserts into notifications                                              *)

FaultChangeSets == {[name |-> <<"B">>], [location |-> NullText]}

InitFault == Init

\* the database starts or stops refusing inserts into notifications
SetFault(b) ==
  /\ fault # b
  /\ fault' = b
  /\ UNCHANGED <<events, notifications, nextId, nextNid, now, last, calls,
               store>>

NextFault ==
  \/ \E data \in ConcCreateInputs : Create(data)
  \/ \E id \in EventIds, changes \in FaultChangeSets : Update(id, changes)
  \/ \E id \in EventIds : Publish(id)
  \/ \E id \in EventIds : Archive(id)
  \/ \E id \in EventIds : Duplicate(id)
  \/ \E b \in BOOLEAN : SetFault(b)

SpecFault == InitFault /\ [][NextFault]_vars

\* the operation threw at its notification insert, after one write to events
\* and with the notifications as they were
RaisedAfterEventWrite(out) ==
  /\ out.result = "InsertFailed"
  /\ out.db.now = now + 1
  /\ out.db.notifications = notifications
  /\ out.db.nextNid = nextNid

\* C26: when the notification insert of create, update, publish, archive or
\* duplicate fails, the operation raises and its write to events stays: the
\* event is created, or changed, with no lifecycle notification, and nothing
\* is rolled back or retried
C26_EventWriteStays ==
  fault =>
    /\ \A data \in ConcCreateInputs :
         LET out == create(DB, data, now)
         IN /\ RaisedAfterEventWrite(out)
            /\ DOMAIN out.db.events = DOMAIN events \cup {nextId}
            /\ out.db.events[nextId].name = data.name
    /\ \A id \in DOMAIN events :
         /\ \A changes \in {c \in FaultChangeSets : Significant(c)} :
              LET out == update(DB, id, changes, now)
              IN /\ RaisedAfterEventWrite(out)
                 /\ \A f \in DOMAIN changes :
                      out.db.events[id][f] = changes[f]
                 /\ out.db.events[id].updatedAt = now
         /\ CanPublish(events[id]) =>
              LET out == publish(DB, id, now)
              IN /\ RaisedAfterEventWrite(out)
                 /\ out.db.events[id].status = "published"
         /\ CanArchive(events[id]) =>
              LET out == archive(DB, id, now)
              IN /\ RaisedAfterEventWrite(out)
                 /\ out.db.events[id].status = "archived"
         /\ LET out == duplicate(DB, id, now)
            IN /\ RaisedAfterEventWrite(out)
               /\ DOMAIN out.db.events = DOMAIN events \cup {nextId}
               /\ out.db.events[nextId].name = events[id].name \o CopySuffix

\* publish has thrown and left a published event with no 'Event Published'
\* notification
C26_Witness ==
  /\ fault
  /\ last = [op |-> "publish", result |-> "InsertFailed"]
  /\ \E id \in DOMAIN events :
        /\ events[id].status = "published"
        /\ \A n \in DOMAIN notifications :
              notifications[n].eventId = id =>
                notifications[n].title # "Event Published"

----------------------------------------------------------------------------
(* Two callers' update and publish calls in flight at the same time, on a  *)
(* store that holds one draft event when the behaviour starts              *)

RaceChangeSets == {[startDate |-> 2], [endDate |-> 2]}

\* the store after one create, made before the behaviour starts: the event
\* and its 'Event Created' notification carry the timestamp -1
StoredBefore ==
  create([events |-> NoKeys, notifications |-> NoKeys, nextId |-> 1,
          nextNid |-> 1, now |-> -1, fault |-> FALSE],
         [name |-> <<"A">>, startDate |-> 1] @@ Details, -1).db

InitRace ==
  /\ events = StoredBefore.events
  /\ notifications = StoredBefore.notifications
  /\ nextId = StoredBefore.nextId
  /\ nextNid = StoredBefore.nextNid
  /\ now = StoredBefore.now
  /\ last = [op |-> "none", result |-> "ok"]
  /\ calls = [c \in Callers |-> Idle]
  /\ fault = FALSE
  /\ store = InitialStore

NextRace ==
  \/ \E c \in Callers, id \in EventIds, changes \in RaceChangeSets :
       Begin(c, "update", id, changes)
  \/ \E c \in Callers, id \in EventIds : Begin(c, "publish", id, NoKeys)
  \/ \E c \in Callers : Read(c)
  \/ \E c \in Callers : WriteEvent(c)
  \/ \E c \in Callers : Notify(c)

SpecRace == InitRace /\ [][NextRace]_vars

\* C27: the date invariant holds when two update calls on the same event
\* interleave: no stored event has an endDate that is set and is not after
\* its startDate
C27_DatesUnderInterleavedUpdates ==
  ~ \E id \in DOMAIN events :
      /\ events[id].endDate # NullDate
      /\ events[id].endDate <= events[id].startDate

\* C28: of the publish calls in flight on one draft event at most one
\* succeeds: the event never has more than one 'Event Published'
\* notification
C28_OnePublishSucceeds ==
  \A id \in DOMAIN events :
    Cardinality({n \in DOMAIN notifications :
                   /\ notifications[n].eventId = id
                   /\ notifications[n].title = "Event Published"}) <= 1

----------------------------------------------------------------------------
(* A client that walks the pages of one listing: a listEvents request for  *)
(* page 1, then one request for each following page with the same filters  *)
(* and page size, on a store that does not change                          *)

PageQueries == {query \in ListQueries : Get(query, "page", DefaultPage) = 1}

InitPages == InitList

\* the rows of the pages received so far, in the order received
Walked == IF last.op = "listEvents" THEN last.reply.data ELSE last.walked

\* the request for the page after the last one received; the SELECT of this
\* request yields the matching rows in an order of its own
ListNextPage(order) ==
  LET query == [page |-> last.reply.meta.page + 1] @@ last.query
      reply == listEvents(DB, query, order)
  IN /\ last.op \in {"listEvents", "listNextPage"}
     /\ last.reply.meta.page < last.reply.meta.totalPages
     /\ last' = [op |-> "listNextPage", result |-> "ok", query |-> query,
                 reply |-> reply, walked |-> Walked \o reply.data]
     /\ UNCHANGED <<events, notifications, nextId, nextNid, now, calls, fault,
               store>>

NextPages ==
  \/ /\ last.op = "none"
     /\ \E query \in PageQueries :
          \E order \in Orders(Matching(DB, query)) : ListEvents(query, order)
  \/ /\ last.op # "none"
     /\ \E order \in Orders(Matching(DB, last.query)) : ListNextPage(order)

SpecPages == InitPages /\ [][NextPages]_vars

\* C29: for a fixed store and fixed filters, the pages 1..ceil(total /
\* pageSize) of a listing together contain every matching event exactly
\* once: once the last page has been received, each matching event is in
\* exactly one place of the rows received
C29_PagesPartitionMatches ==
  (last.op \in {"listEvents", "listNextPage"}
     /\ last.reply.meta.page >= last.reply.meta.totalPages) =>
    \A id \in Matching(DB, last.query) :
      Cardinality({i \in DOMAIN Walked : Walked[i] = id}) = 1

----------------------------------------------------------------------------
(* Calls of the actions of the client's events store *)

\* pages a caller passes to setCurrentPage
MaxPage == 3

StoreQueries == {EmptyString, <<"a">>}

StoreStatuses == {NullStatus, "draft"}

StoreTags == {<<>>, <<"t">>}

StorePageSizes == {10, InitialPageSize}

StoreSortings == {"name", "startDate"} \X {"asc", "desc"}

StoreEventIds == {"e1", "e2"}

StoreSelections == {<<>>, <<"e1">>, <<"e1", "e2">>}

InitStore == Init

\* a store action has run: its new state replaces the store's
Apply(state, op) ==
  /\ store' = state
  /\ last' = [op |-> op, result |-> "ok"]
  /\ UNCHANGED <<events, notifications, nextId, nextNid, now, calls, fault>>

SetSearchQuery(query) ==
  Apply(setSearchQuery(store, query), "setSearchQuery")

SetSelectedStatus(status) ==
  Apply(setSelectedStatus(store, status), "setSelectedStatus")

SetSelectedTags(tags) ==
  Apply(setSelectedTags(store, tags), "setSelectedTags")

SetCurrentPage(page) ==
  Apply(setCurrentPage(store, page), "setCurrentPage")

SetPageSize(size) == Apply(setPageSize(store, size), "setPageSize")

SetSorting(field, order) ==
  Apply(setSorting(store, field, order), "setSorting")

SelectEvent(eventId) == Apply(selectEvent(store, eventId), "selectEvent")

SelectAllEvents(eventIds) ==
  Apply(selectAllEvents(store, eventIds), "selectAllEvents")

ClearSelection == Apply(clearSelection(store), "clearSelection")

ResetFilters == Apply(resetFilters(store), "resetFilters")

NextStore ==
  \/ \E query \in StoreQueries : SetSearchQuery(query)
  \/ \E status \in StoreStatuses : SetSelectedStatus(status)
  \/ \E tags \in StoreTags : SetSelectedTags(tags)
  \/ \E page \in 1..MaxPage : SetCurrentPage(page)
  \/ \E size \in StorePageSizes : SetPageSize(size)
  \/ \E sorting \in StoreSortings : SetSorting(sorting[1], sorting[2])
  \/ \E eventId \in StoreEventIds : SelectEvent(eventId)
  \/ \E eventIds \in StoreSelections : SelectAllEvents(eventIds)
  \/ ClearSelection
  \/ ResetFilters

SpecStore == InitStore /\ [][NextStore]_vars

\* the keys of the store's state other than the given ones keep their values
StoreKeeps(keys) ==
  \A key \in DOMAIN store \ keys : store'[key] = store[key]

\* C30: setSearchQuery, setSelectedStatus, setSelectedTags, setPageSize,
\* setSorting and resetFilters each set currentPage to 1; setCurrentPage
\* changes currentPage only; none of these changes selectedEventIds; and
\* resetFilters leaves pageSize as it is
C30_StoreFrame ==
  [][/\ (\/ \E query \in StoreQueries : SetSearchQuery(query)
         \/ \E status \in StoreStatuses : SetSelectedStatus(status)
         \/ \E tags \in StoreTags : SetSelectedTags(tags)
         \/ \E size \in StorePageSizes : SetPageSize(size)
         \/ \E sorting \in StoreSortings : SetSorting(sorting[1], sorting[2])
         \/ ResetFilters) =>
          /\ store'.currentPage = 1
          /\ store'.selectedEventIds = store.selectedEventIds
     /\ \A page \in 1..MaxPage :
          SetCurrentPage(page) =>
            /\ store'.currentPage = page
            /\ StoreKeeps({"currentPage"})
     /\ ResetFilters => store'.pageSize = store.pageSize]_vars

\* resetFilters has run on a store with a page size that is not the initial
\* one and with a selection, and has kept both
C30_Witness ==
  /\ last = [op |-> "resetFilters", result |-> "ok"]
  /\ store.pageSize # InitialPageSize
  /\ store.selectedEventIds # <<>>
  /\ store.currentPage = 1
  /\ store.searchQuery = EmptyString

====
